---- MODULE Spec2Model ----
(***************************************************************************)
(* State-machine model of QUICAltConnectionManager                         *)
(* (iocore/net/quic/QUICAltConnectionManager.cc): the local pool of        *)
(* alternate connection ids, the list of ids advertised by the peer, the   *)
(* queue of sequence numbers to retire, and the frame generator.           *)
(***************************************************************************)
EXTENDS Naturals, Sequences, FiniteSets, TLC

(* ---------------------------- bounds ---------------------------------- *)
\* cap on the number of connection ids the coordinator ever handled: the ids
\* it generated plus the entries its remote list ever held
MaxIds == 4
\* cap on _alt_quic_connection_id_seq_num (number of ids ever generated); the
\* remote list holds the seeded entry from the start
MaxSeq == MaxIds - 1
\* cap on the number of entries _alt_quic_connection_ids_remote ever held
\* (the seeded ones, the ones appended since, the ones dropped since)
MaxRemote == MaxIds - 1

(* -------------------------- value domains ------------------------------ *)
\* num_alt_con values given to a constructor
NumAltCon == {1, 2}
\* sequence numbers carried by inbound NEW_CONNECTION_ID frames
PeerSeqs == {0, 1}
\* maximum_frame_size values handed to generate_frame
Budgets == {0, 1, 2, 3}
\* QUICConnectionId::ZERO(), the zero-length connection id
ZERO == 0
\* connection ids in use by the peer (non-zero)
PeerCids == {1, 2}
\* the peer's initial connection id handed to the constructor
InitialCids == {1}
\* the n-th value produced by QUICConnectionId::randomize(); random ids are
\* modelled as fresh: distinct from each other and from the peer's ids
RandomCid(n) == 100 + n
\* QUICStatelessResetToken(conn_id, instance_id): deterministic in the id
\* for the fixed instance id of the coordinator
StatelessResetToken(conn_id) == 1000 + conn_id
\* the default-constructed token `{}` of the seeded sequence-0 entry
NoToken == 0
\* token of the peer's preferred address and of inbound frames
PeerTokens == {7}
\* a connection id left in freed memory by an earlier coordinator; the ids
\* randomize() produces later differ from it
StaleCid == RandomCid(0)
\* what uninitialised (ats_malloc) pool memory may hold: zeroes, or an entry
\* an earlier coordinator left behind
GarbageInfo ==
  [seq_num : {0}, id : {ZERO}, token : {NoToken}, advertised : {FALSE}]
    \cup [seq_num : {1}, id : {StaleCid}, token : {StatelessResetToken(StaleCid)},
          advertised : BOOLEAN]
Levels == {"HANDSHAKE", "ONE_RTT"}

VARIABLES
  direction,                        \* _qc->direction()
  nids,                             \* _nids
  alt_quic_connection_ids_local,    \* array of AltConnectionInfo, 1..nids
  alt_quic_connection_ids_remote,   \* std::vector<AltConnectionInfo>
  alt_quic_connection_id_seq_num,   \* local sequence counter
  need_advertise,                   \* _need_advertise
  retired_seq_nums,                 \* std::queue<uint64_t>
  preferred_address,                \* _preferred_address (id bound to it, or ZERO)
  ctable,                           \* ids the QUICConnectionTable maps to _qc
  peer_initial_cid,                 \* constructor argument
  ret,                              \* value returned by the last call
  populated,                        \* history: pool slots written by the coordinator
  dropped,                          \* history: sequence numbers pushed by drop_cid
  emitted,                          \* history: sequence numbers sent in RETIRE frames
  sent                              \* history: sequence numbers sent in NEW_CONNECTION_ID frames

vars == <<direction, nids, alt_quic_connection_ids_local, alt_quic_connection_ids_remote,
          alt_quic_connection_id_seq_num, need_advertise, retired_seq_nums,
          preferred_address, ctable, peer_initial_cid, ret, populated, dropped,
          emitted, sent>>

config == <<direction, nids, peer_initial_cid, preferred_address>>
history == <<dropped, emitted, sent>>
LocalSlots == 1..nids

\* the connection ids handled so far, and whether n more stay within MaxIds
ids_handled ==
  alt_quic_connection_id_seq_num + Len(alt_quic_connection_ids_remote) + Len(dropped)
room_for(n) == ids_handled + n <= MaxIds

(* --------------------------- return values ----------------------------- *)
NullFrame == [kind |-> "null_frame"]
NoError == [kind |-> "no_error"]
ProtocolViolation(frame_type) ==
  [kind |-> "error", code |-> "PROTOCOL_VIOLATION", frame_type |-> frame_type]
NewConnectionIdFrame(info) ==
  [kind |-> "NEW_CONNECTION_ID", seq_num |-> info.seq_num, id |-> info.id, token |-> info.token]
RetireConnectionIdFrame(s) == [kind |-> "RETIRE_CONNECTION_ID", seq_num |-> s]
CidResult(cid) == [kind |-> "cid", id |-> cid]
Constructed == [kind |-> "constructed"]
Void == [kind |-> "void"]
\* the void return of invalidate_alt_connections, the last call made on the
\* manager before the connection is freed
Invalidated == [kind |-> "void", of |-> "invalidate_alt_connections"]

\* size of an encoded NEW_CONNECTION_ID frame (QUICFrame::size)
frame_size(frame) == 2

\* QUICFrameGenerator::_is_level_matched: only 1-RTT packets carry these frames
is_level_matched(level) == level = "ONE_RTT"

(* ------------------- _generate_next_alt_con_info ----------------------- *)
\* mutant: `_alt_quic_connection_id_seq_num++`, the counter read before it is
\* incremented
next_alt_con_info_postincrement(seq) ==
  [seq_num |-> seq, id |-> RandomCid(seq + 1),
   token |-> StatelessResetToken(RandomCid(seq + 1)), advertised |-> FALSE]

\* the AltConnectionInfo generated when the counter stands at seq
next_alt_con_info(seq) ==
  [seq_num |-> seq + 1, id |-> RandomCid(seq + 1),
   token |-> StatelessResetToken(RandomCid(seq + 1)), advertised |-> FALSE]

\* the ids _generate_next_alt_con_info inserts into the table while
\* generating entries from+1 .. to
inserted(dir, from, to) ==
  IF dir = "NET_VCONNECTION_IN" THEN {RandomCid(k) : k \in (from + 1)..to} ELSE {}

(* ---------------------- _init_alt_connection_ids ----------------------- *)
\* mutant: the first slot is marked advertised without a preferred endpoint
init_alt_connection_ids_first_advertised(n, seq, preferred_endpoint) ==
  [i \in 1..n |->
     IF i = 1
       THEN [next_alt_con_info(seq) EXCEPT !.advertised = TRUE]
       ELSE next_alt_con_info(seq + i - 1)]

\* mutant: the counter does not advance from one slot to the next
init_alt_connection_ids_same_seq(n, seq, preferred_endpoint) ==
  [i \in 1..n |->
     IF preferred_endpoint /\ i = 1
       THEN [next_alt_con_info(seq) EXCEPT !.advertised = TRUE]
       ELSE next_alt_con_info(seq)]

\* pool after _init_alt_connection_ids, starting with the counter at seq
init_alt_connection_ids(n, seq, preferred_endpoint) ==
  [i \in 1..n |->
     IF preferred_endpoint /\ i = 1
       THEN [next_alt_con_info(seq) EXCEPT !.advertised = TRUE]
       ELSE next_alt_con_info(seq + i - 1)]

(* ----------------------------- constructors ---------------------------- *)
\* QUICAltConnectionManager(qc, ctable, peer_initial_cid, instance_id,
\*                          num_alt_con, const QUICPreferredAddress)
\* The connection initiator constructs the manager with the preferred address
\* it received from the peer. The pool is allocated and left unwritten.
InitPreferredAddress ==
  /\ direction = "NET_VCONNECTION_OUT"
  /\ nids \in NumAltCon
  /\ peer_initial_cid \in InitialCids
  /\ \E available \in BOOLEAN, pa_cid \in PeerCids, pa_token \in PeerTokens :
       alt_quic_connection_ids_remote =
         <<[seq_num |-> 0, id |-> peer_initial_cid, token |-> NoToken, used |-> TRUE]>>
         \o (IF available
               THEN <<[seq_num |-> 1, id |-> pa_cid, token |-> pa_token, used |-> FALSE]>>
               ELSE <<>>)
  /\ alt_quic_connection_ids_local \in [1..nids -> GarbageInfo]
  /\ alt_quic_connection_id_seq_num = 0
  /\ need_advertise = FALSE
  /\ retired_seq_nums = <<>>
  /\ preferred_address = ZERO
  /\ ctable = {}
  /\ populated = {}
  /\ ret = Constructed
  /\ dropped = <<>>
  /\ emitted = <<>>
  /\ sent = {}

\* QUICAltConnectionManager(qc, ctable, peer_initial_cid, instance_id,
\*                          num_alt_con, const IpEndpoint *preferred_endpoint)
\* The accepting side constructs the manager with its own preferred endpoint
\* (or none) and populates the pool at once.
InitPreferredEndpoint ==
  /\ direction = "NET_VCONNECTION_IN"
  /\ nids \in NumAltCon
  /\ peer_initial_cid \in InitialCids
  /\ alt_quic_connection_ids_remote =
       <<[seq_num |-> 0, id |-> peer_initial_cid, token |-> NoToken, used |-> TRUE]>>
  /\ \E preferred_endpoint \in BOOLEAN :
       /\ alt_quic_connection_ids_local = init_alt_connection_ids(nids, 0, preferred_endpoint)
       /\ preferred_address = IF preferred_endpoint THEN RandomCid(1) ELSE ZERO
  /\ alt_quic_connection_id_seq_num = nids
  /\ need_advertise = TRUE
  /\ retired_seq_nums = <<>>
  /\ ctable = inserted(direction, 0, nids)
  /\ populated = 1..nids
  /\ ret = Constructed
  /\ dropped = <<>>
  /\ emitted = <<>>
  /\ sent = {}

Init == InitPreferredAddress \/ InitPreferredEndpoint

(* ------------------- _register_remote_connection_id -------------------- *)
\* mutant: the zero-length check is missing
register_remote_connection_id_unchecked(seq, cid, token) ==
  /\ Len(alt_quic_connection_ids_remote) + Len(dropped) < MaxRemote
  /\ room_for(1)
  /\ alt_quic_connection_ids_remote' =
       Append(alt_quic_connection_ids_remote,
              [seq_num |-> seq, id |-> cid, token |-> token, used |-> FALSE])
  /\ ret' = NoError
  /\ UNCHANGED <<config, alt_quic_connection_ids_local, alt_quic_connection_id_seq_num,
                 need_advertise, retired_seq_nums, ctable, populated, history>>

register_remote_connection_id(seq, cid, token) ==
  /\ IF cid = ZERO
       THEN /\ ret' = ProtocolViolation("NEW_CONNECTION_ID")
            /\ UNCHANGED alt_quic_connection_ids_remote
       ELSE /\ Len(alt_quic_connection_ids_remote) + Len(dropped) < MaxRemote
            /\ room_for(1)
            /\ alt_quic_connection_ids_remote' =
                 Append(alt_quic_connection_ids_remote,
                        [seq_num |-> seq, id |-> cid, token |-> token, used |-> FALSE])
            /\ ret' = NoError
  /\ UNCHANGED <<config, alt_quic_connection_ids_local, alt_quic_connection_id_seq_num,
                 need_advertise, retired_seq_nums, ctable, populated, history>>


(* ---------------------- _update_alt_connection_id ---------------------- *)
\* the slots whose sequence number is chosen_seq_num
matching_slots(chosen_seq_num) ==
  {i \in LocalSlots : alt_quic_connection_ids_local[i].seq_num = chosen_seq_num}

\* mutant: the scan runs from the last index down
last_slot(slots) == CHOOSE i \in slots : \A j \in slots : j <= i

\* the slot at which the scan `for (i = 0; i < _nids; ++i)` stops
first_slot(slots) == CHOOSE i \in slots : \A j \in slots : i <= j

\* the return value of _update_alt_connection_id
update_result(chosen_seq_num) ==
  matching_slots(chosen_seq_num) # {} \/ chosen_seq_num = 0

update_alt_connection_id(chosen_seq_num) ==
  IF matching_slots(chosen_seq_num) # {}
    THEN LET i == first_slot(matching_slots(chosen_seq_num)) IN
         /\ alt_quic_connection_id_seq_num < MaxSeq
         /\ room_for(1)
         /\ alt_quic_connection_ids_local' =
              [alt_quic_connection_ids_local EXCEPT
                 ![i] = next_alt_con_info(alt_quic_connection_id_seq_num)]
         /\ alt_quic_connection_id_seq_num' = alt_quic_connection_id_seq_num + 1
         /\ ctable' = ctable \cup inserted(direction, alt_quic_connection_id_seq_num,
                                           alt_quic_connection_id_seq_num + 1)
         /\ need_advertise' = TRUE
         /\ populated' = populated \cup {i}
    ELSE UNCHANGED <<alt_quic_connection_ids_local, alt_quic_connection_id_seq_num,
                     ctable, need_advertise, populated>>

(* --------------------- _retire_remote_connection_id -------------------- *)
retire_remote_connection_id(seq) ==
  /\ update_alt_connection_id(seq)
  /\ ret' = IF update_result(seq) THEN NoError
            ELSE ProtocolViolation("RETIRE_CONNECTION_ID")
  /\ UNCHANGED <<config, alt_quic_connection_ids_remote, retired_seq_nums, history>>

(* ------------------------- is_ready_to_migrate ------------------------- *)
unused_remote ==
  {k \in 1..Len(alt_quic_connection_ids_remote) : ~alt_quic_connection_ids_remote[k].used}

\* mutant: the used flags are not consulted
is_ready_to_migrate_nonempty == alt_quic_connection_ids_remote # <<>>

is_ready_to_migrate ==
  IF alt_quic_connection_ids_remote = <<>> THEN FALSE ELSE unused_remote # {}

(* -------------------------- migrate_to_alt_cid ------------------------- *)
\* mutant: the scan runs from the back of the list
migration_target_last ==
  CHOOSE k \in unused_remote : \A j \in unused_remote : j <= k

\* the entry the scan `for (auto &info : remote)` stops at: the first unused one
migration_target == first_slot(unused_remote)

\* Without an unused remote entry the ink_assert is compiled out of release
\* builds and ZERO is returned.
migrate_to_alt_cid ==
  /\ IF direction = "NET_VCONNECTION_OUT"
       THEN /\ alt_quic_connection_id_seq_num + nids <= MaxSeq
            /\ room_for(nids)
            /\ alt_quic_connection_ids_local' =
                 init_alt_connection_ids(nids, alt_quic_connection_id_seq_num, FALSE)
            /\ alt_quic_connection_id_seq_num' = alt_quic_connection_id_seq_num + nids
            /\ need_advertise' = TRUE
            /\ populated' = LocalSlots
       ELSE UNCHANGED <<alt_quic_connection_ids_local, alt_quic_connection_id_seq_num,
                        need_advertise, populated>>
  /\ IF unused_remote # {}
       THEN LET k == migration_target IN
            /\ alt_quic_connection_ids_remote' =
                 [alt_quic_connection_ids_remote EXCEPT ![k].used = TRUE]
            /\ ret' = CidResult(alt_quic_connection_ids_remote[k].id)
       ELSE /\ UNCHANGED alt_quic_connection_ids_remote
            /\ ret' = CidResult(ZERO)
  /\ UNCHANGED <<config, retired_seq_nums, ctable, history>>

(* ------------------------------- migrate_to ---------------------------- *)
\* connection ids seen on a new path and handed to migrate_to
MigrateCids == {RandomCid(k) : k \in 1..MaxSeq} \cup {ZERO}

\* mutant: the scan starts at the second slot (`unsigned int i = 1`)
local_with_id_from_second(cid) ==
  {i \in LocalSlots \ {1} : alt_quic_connection_ids_local[i].id = cid}

local_with_id(cid) ==
  {i \in LocalSlots : alt_quic_connection_ids_local[i].id = cid}

\* the bool returned, with the token written through new_reset_token when
\* the scan `for (i = 0; i < _nids; ++i)` finds the id
MigrateToResult(found, token) ==
  IF found THEN [kind |-> "migrate_to", found |-> TRUE, new_reset_token |-> token]
  ELSE [kind |-> "migrate_to", found |-> FALSE]

migrate_to(cid) ==
  /\ ret' = IF local_with_id(cid) # {}
             THEN MigrateToResult(TRUE,
                    alt_quic_connection_ids_local[first_slot(local_with_id(cid))].token)
             ELSE MigrateToResult(FALSE, NoToken)
  /\ UNCHANGED <<config, alt_quic_connection_ids_local, alt_quic_connection_ids_remote,
                 alt_quic_connection_id_seq_num, need_advertise, retired_seq_nums,
                 ctable, populated, history>>

(* ------------------------------- drop_cid ------------------------------ *)
\* mutant: the sequence number is compared with the id
remote_with_seq(cid) ==
  {k \in 1..Len(alt_quic_connection_ids_remote) : alt_quic_connection_ids_remote[k].seq_num = cid}

remote_with_id(cid) ==
  {k \in 1..Len(alt_quic_connection_ids_remote) : alt_quic_connection_ids_remote[k].id = cid}

\* mutant: erase(begin()) instead of erase(it)
erase_front(s, k) == Tail(s)

\* s without its k-th element (std::vector::erase)
erase(s, k) == [j \in 1..(Len(s) - 1) |-> IF j < k THEN s[j] ELSE s[j + 1]]

drop_cid(cid) ==
  /\ IF remote_with_id(cid) # {}
       THEN LET k == first_slot(remote_with_id(cid)) IN
            /\ retired_seq_nums' =
                 Append(retired_seq_nums, alt_quic_connection_ids_remote[k].seq_num)
            /\ dropped' = Append(dropped, alt_quic_connection_ids_remote[k].seq_num)
            /\ alt_quic_connection_ids_remote' = erase(alt_quic_connection_ids_remote, k)
       ELSE UNCHANGED <<retired_seq_nums, dropped, alt_quic_connection_ids_remote>>
  /\ ret' = Void
  /\ UNCHANGED <<config, alt_quic_connection_ids_local, alt_quic_connection_id_seq_num,
                 need_advertise, ctable, populated, emitted, sent>>

(* ---------------------- invalidate_alt_connections --------------------- *)
\* Teardown: the owning connection calls this when it is closed and calls
\* nothing else on the manager afterwards. The table is written by the
\* manager and never read by it.
invalidate_alt_connections ==
  /\ ctable' = ctable \ {alt_quic_connection_ids_local[i].id : i \in LocalSlots}
  /\ ret' = Invalidated
  /\ UNCHANGED <<config, alt_quic_connection_ids_local, alt_quic_connection_ids_remote,
                 alt_quic_connection_id_seq_num, need_advertise, retired_seq_nums,
                 populated, history>>

(* -------------------------- will_generate_frame ------------------------ *)
\* mutant: _need_advertise is not consulted
will_generate_frame_retire_only(level) ==
  IF ~is_level_matched(level) THEN FALSE ELSE retired_seq_nums # <<>>

\* mutant: `&&` for `||`
will_generate_frame_both(level) ==
  IF ~is_level_matched(level) THEN FALSE
  ELSE need_advertise /\ retired_seq_nums # <<>>

\* mutant: the retirement queue is not consulted
will_generate_frame_advertise_only(level) ==
  IF ~is_level_matched(level) THEN FALSE ELSE need_advertise

will_generate_frame(level) ==
  IF ~is_level_matched(level) THEN FALSE
  ELSE need_advertise \/ retired_seq_nums # <<>>

(* ---------------------------- generate_frame --------------------------- *)
\* mutant: the scan starts at the second slot (`int i = 1`)
unadvertised_slots_from_second ==
  {i \in LocalSlots \ {1} : ~alt_quic_connection_ids_local[i].advertised}

unadvertised_slots ==
  {i \in LocalSlots : ~alt_quic_connection_ids_local[i].advertised}

\* mutant: `>=` for `>`
exceeds_or_fills(frame, maximum_frame_size) == frame_size(frame) >= maximum_frame_size

\* `frame->size() > maximum_frame_size`: the frame does not fit
exceeds(frame, maximum_frame_size) == frame_size(frame) > maximum_frame_size

\* the tail of generate_frame: the retirement queue
generate_retire_frame ==
  IF retired_seq_nums # <<>> /\ Head(retired_seq_nums) # 0
    THEN /\ ret' = RetireConnectionIdFrame(Head(retired_seq_nums))
         /\ retired_seq_nums' = Tail(retired_seq_nums)
         /\ emitted' = Append(emitted, Head(retired_seq_nums))
    ELSE /\ ret' = NullFrame
         /\ UNCHANGED <<retired_seq_nums, emitted>>

generate_frame(level, maximum_frame_size) ==
  /\ IF ~is_level_matched(level)
       THEN /\ ret' = NullFrame
            /\ UNCHANGED <<alt_quic_connection_ids_local, need_advertise,
                           retired_seq_nums, emitted, sent>>
       ELSE IF need_advertise /\ unadvertised_slots # {}
         THEN LET i == first_slot(unadvertised_slots)
                  frame == NewConnectionIdFrame(alt_quic_connection_ids_local[i]) IN
              /\ IF exceeds(frame, maximum_frame_size)
                   THEN /\ ret' = NullFrame
                        /\ UNCHANGED <<alt_quic_connection_ids_local, sent>>
                   ELSE /\ ret' = frame
                        /\ alt_quic_connection_ids_local' =
                             [alt_quic_connection_ids_local EXCEPT ![i].advertised = TRUE]
                        /\ sent' = sent \cup {frame.seq_num}
              /\ UNCHANGED <<need_advertise, retired_seq_nums, emitted>>
         ELSE /\ need_advertise' = FALSE
              /\ generate_retire_frame
              /\ UNCHANGED <<alt_quic_connection_ids_local, sent>>
  /\ UNCHANGED <<config, alt_quic_connection_ids_remote, alt_quic_connection_id_seq_num,
                 ctable, populated, dropped>>

(* ------------------------------ handle_frame --------------------------- *)
\* the object is gone once the connection has been torn down: no operation of
\* it is called after invalidate_alt_connections
torn_down == ret = Invalidated

HandleNewConnectionId ==
  /\ ~torn_down
  /\ \E seq \in PeerSeqs, cid \in PeerCids \cup {ZERO}, token \in PeerTokens :
       register_remote_connection_id(seq, cid, token)

HandleRetireConnectionId ==
  /\ ~torn_down
  /\ \E seq \in 0..(MaxSeq + 1) : retire_remote_connection_id(seq)

MigrateToAltCid ==
  /\ ~torn_down
  /\ migrate_to_alt_cid

MigrateTo ==
  /\ ~torn_down
  /\ \E cid \in MigrateCids : migrate_to(cid)

DropCid ==
  /\ ~torn_down
  /\ \E cid \in PeerCids : drop_cid(cid)

InvalidateAltConnections ==
  /\ ~torn_down
  /\ invalidate_alt_connections

GenerateFrame ==
  /\ ~torn_down
  /\ \E level \in Levels, maximum_frame_size \in Budgets :
       generate_frame(level, maximum_frame_size)

Next ==
  \/ HandleNewConnectionId
  \/ HandleRetireConnectionId
  \/ MigrateToAltCid
  \/ MigrateTo
  \/ DropCid
  \/ InvalidateAltConnections
  \/ GenerateFrame

Spec == Init /\ [][Next]_vars

\* The frame scheduler keeps polling generate_frame at the 1-RTT level with a
\* packet large enough for any frame of this generator.
PollAmple == \E maximum_frame_size \in Budgets :
  /\ ~torn_down
  /\ \A i \in LocalSlots :
       ~exceeds(NewConnectionIdFrame(alt_quic_connection_ids_local[i]), maximum_frame_size)
  /\ generate_frame("ONE_RTT", maximum_frame_size)

FairSpec == Init /\ [][Next]_vars /\ WF_vars(PollAmple)

(* ======================== properties of the model ====================== *)
IsPrefix(a, b) == Len(a) <= Len(b) /\ \A i \in 1..Len(a) : a[i] = b[i]

\* the entry the constructors seed for the peer's initial connection id
SeededInitial ==
  [seq_num |-> 0, id |-> peer_initial_cid, token |-> NoToken, used |-> TRUE]

SeededPresent ==
  /\ alt_quic_connection_ids_remote # <<>>
  /\ alt_quic_connection_ids_remote[1] = SeededInitial

\* the slots the coordinator has generated that are not advertised yet
unadvertised_generated ==
  {i \in populated : ~alt_quic_connection_ids_local[i].advertised}

\* the ids this coordinator has generated and inserted into the table
ever_registered == inserted(direction, 0, alt_quic_connection_id_seq_num)

\* C1 (as stated): in every reachable state the remote list contains an entry
\* with sequence number 0 whose id is the initial peer id.
C1_Seq0AlwaysPresent ==
  \E k \in 1..Len(alt_quic_connection_ids_remote) :
    /\ alt_quic_connection_ids_remote[k].seq_num = 0
    /\ alt_quic_connection_ids_remote[k].id = peer_initial_cid

\* C1 (amended): the entry seeded with sequence number 0 and the initial peer
\* id is the first remote entry after construction, and the only step that
\* removes it is drop_cid called with the initial peer id; frames, drops of
\* other ids, migrate_to_alt_cid and generate_frame keep it in place.
C1_Seq0UntilDropped ==
  /\ SeededPresent
  /\ [][(SeededPresent /\ ~SeededPresent') => drop_cid(peer_initial_cid)]_vars

\* a drop of another id has happened and the seeded entry is still first
C1_Witness ==
  /\ SeededPresent
  /\ dropped # <<>>
  /\ ret = Void

\* C2: every drop_cid that removes an entry is followed by exactly one
\* RETIRE_CONNECTION_ID frame with its sequence number, in drop order: the
\* frames sent are always a prefix of the sequence numbers dropped, and the
\* k-th drop is eventually followed by the k-th frame (unless the connection
\* is torn down first).
C2_DropsRetiredInOrder ==
  /\ [](IsPrefix(emitted, dropped))
  /\ \A k \in 1..MaxRemote :
       (Len(dropped) >= k) ~> (Len(emitted) >= k \/ torn_down)

\* C3: once the inbound operations have stopped and generate_frame keeps being
\* polled, every generated entry is advertised, every dropped sequence number
\* has been sent, the queue is empty and will_generate_frame is false (unless
\* the connection is torn down first).
C3_EventuallyQuiescent ==
  <>[](\/ torn_down
       \/ /\ unadvertised_generated = {}
          /\ emitted = dropped
          /\ retired_seq_nums = <<>>
          /\ ~will_generate_frame("ONE_RTT"))

\* C4 (as stated): will_generate_frame(level) is true exactly when the level
\* is eligible and some local entry is un-advertised or the retirement queue
\* is non-empty.
C4_PendingIffWork ==
  \A level \in Levels :
    will_generate_frame(level) <=>
      (is_level_matched(level)
         /\ (unadvertised_generated # {} \/ retired_seq_nums # <<>>))

\* C4 (amended): will_generate_frame is false at an ineligible level; at an
\* eligible level it is true whenever a generated entry is un-advertised or
\* the retirement queue is non-empty. It may stay true with nothing left to
\* send, until a generate_frame call has cleared _need_advertise.
C4_PendingCoversWork ==
  \A level \in Levels :
    /\ ~is_level_matched(level) => ~will_generate_frame(level)
    /\ (is_level_matched(level)
          /\ (unadvertised_generated # {} \/ retired_seq_nums # <<>>))
         => will_generate_frame(level)

\* every entry is advertised, a retirement is queued and the flag is cleared
C4_Witness ==
  /\ populated = LocalSlots
  /\ unadvertised_generated = {}
  /\ ~need_advertise
  /\ retired_seq_nums # <<>>
  /\ will_generate_frame("ONE_RTT")

\* C5: on an acceptor, after invalidate_alt_connections the table holds no
\* id that this coordinator generated and inserted.
C5_InvalidateClearsTable ==
  [][(direction = "NET_VCONNECTION_IN" /\ invalidate_alt_connections)
       => ctable' \cap ever_registered = {}]_vars

\* C6: a NEW_CONNECTION_ID frame with a zero-length id yields
\* PROTOCOL_VIOLATION tagged NEW_CONNECTION_ID and changes neither list, the
\* counter nor the queue; with a non-empty id it yields no error and appends
\* exactly one unused entry at the tail, whatever the sequence number.
C6_RegisterRemote ==
  [][\A seq \in PeerSeqs, cid \in PeerCids \cup {ZERO}, token \in PeerTokens :
       register_remote_connection_id(seq, cid, token) =>
         /\ cid = ZERO =>
              /\ ret' = ProtocolViolation("NEW_CONNECTION_ID")
              /\ UNCHANGED <<alt_quic_connection_ids_remote, alt_quic_connection_ids_local,
                             alt_quic_connection_id_seq_num, retired_seq_nums>>
         /\ cid # ZERO =>
              /\ ret' = NoError
              /\ alt_quic_connection_ids_remote' =
                   alt_quic_connection_ids_remote
                     \o <<[seq_num |-> seq, id |-> cid, token |-> token, used |-> FALSE]>>]_vars

\* a zero-length id was just rejected, after a frame with sequence number 0
\* had been appended
C6_Witness ==
  /\ ret = ProtocolViolation("NEW_CONNECTION_ID")
  /\ \E k \in 1..Len(alt_quic_connection_ids_remote) :
       /\ alt_quic_connection_ids_remote[k].seq_num = 0
       /\ ~alt_quic_connection_ids_remote[k].used

\* C7: a RETIRE_CONNECTION_ID frame for s succeeds iff s is the sequence
\* number of a pool slot or s = 0; for s = 0 the pool, the counter and
\* _need_advertise are unchanged; for any other unmatched s the result is
\* PROTOCOL_VIOLATION tagged RETIRE_CONNECTION_ID and nothing changes.
C7_RetireResult ==
  [][\A s \in 0..(MaxSeq + 1) :
       retire_remote_connection_id(s) =>
         /\ (ret' = NoError) <=> (matching_slots(s) # {} \/ s = 0)
         /\ s = 0 => UNCHANGED <<alt_quic_connection_ids_local,
                                 alt_quic_connection_id_seq_num, need_advertise>>
         /\ (s # 0 /\ matching_slots(s) = {}) =>
              /\ ret' = ProtocolViolation("RETIRE_CONNECTION_ID")
              /\ UNCHANGED <<config, alt_quic_connection_ids_local,
                             alt_quic_connection_ids_remote, alt_quic_connection_id_seq_num,
                             need_advertise, retired_seq_nums, ctable>>]_vars

SelectsFirstUnused ==
  \E k \in unused_remote :
    /\ \A j \in unused_remote : k <= j
    /\ ret' = CidResult(alt_quic_connection_ids_remote[k].id)
    /\ alt_quic_connection_ids_remote' =
         [alt_quic_connection_ids_remote EXCEPT ![k].used = TRUE]

\* the step erases one remote entry, or keeps every entry with its used flag
\* not going from true to false
UsedNeverReverts ==
  \/ \E k \in 1..Len(alt_quic_connection_ids_remote) :
       alt_quic_connection_ids_remote' = erase(alt_quic_connection_ids_remote, k)
  \/ /\ Len(alt_quic_connection_ids_remote') >= Len(alt_quic_connection_ids_remote)
     /\ \A k \in 1..Len(alt_quic_connection_ids_remote) :
          /\ alt_quic_connection_ids_remote'[k].id = alt_quic_connection_ids_remote[k].id
          /\ alt_quic_connection_ids_remote'[k].seq_num =
               alt_quic_connection_ids_remote[k].seq_num
          /\ alt_quic_connection_ids_remote[k].used =>
               alt_quic_connection_ids_remote'[k].used

\* C9: when is_ready_to_migrate, migrate_to_alt_cid returns the id of the
\* first unused remote entry in insertion order and marks that entry, and no
\* other, used; no step turns a used flag back to false while the entry
\* stays in the list.
C9_MigrationTarget ==
  [][/\ (is_ready_to_migrate /\ migrate_to_alt_cid) => SelectsFirstUnused
     /\ UsedNeverReverts]_vars

\* the first of two entries advertised by the peer was just selected
C9_Witness ==
  /\ ret.kind = "cid"
  /\ Len(alt_quic_connection_ids_remote) = 2
  /\ alt_quic_connection_ids_remote[1].token # NoToken
  /\ alt_quic_connection_ids_remote[1].used
  /\ alt_quic_connection_ids_remote[1].id = ret.id
  /\ alt_quic_connection_ids_remote[2].id # ret.id
  /\ ~alt_quic_connection_ids_remote[2].used

\* C10: a generate_frame call at an eligible level while a generated entry
\* is un-advertised, with a budget the frame exceeds, returns no frame and
\* changes no advertised flag, leaves _need_advertise true and the queue
\* untouched, so the same slot is first in line for the next call; a call
\* with a sufficient budget (the next one included) returns the
\* NEW_CONNECTION_ID frame of the first un-advertised slot and marks it.
C10_OversizedAdvertisement ==
  [][\A m \in Budgets :
       /\ (/\ unadvertised_generated # {}
           /\ frame_size(NewConnectionIdFrame(
                  alt_quic_connection_ids_local[first_slot(unadvertised_slots)])) > m
           /\ generate_frame("ONE_RTT", m))
          => /\ ret' = NullFrame
             /\ need_advertise /\ need_advertise'
             /\ UNCHANGED <<alt_quic_connection_ids_local, retired_seq_nums>>
       /\ (/\ unadvertised_generated # {}
           /\ frame_size(NewConnectionIdFrame(
                  alt_quic_connection_ids_local[first_slot(unadvertised_slots)])) <= m
           /\ generate_frame("ONE_RTT", m))
          => LET i == first_slot(unadvertised_slots) IN
             /\ ret' = NewConnectionIdFrame(alt_quic_connection_ids_local[i])
             /\ alt_quic_connection_ids_local' =
                  [alt_quic_connection_ids_local EXCEPT ![i].advertised = TRUE]]_vars

\* a call returned no frame while a generated entry is still un-advertised
\* and another one has been advertised already
C10_Witness ==
  /\ ret = NullFrame
  /\ need_advertise
  /\ unadvertised_generated # {}
  /\ \E i \in populated : alt_quic_connection_ids_local[i].advertised

\* the step returns the NEW_CONNECTION_ID frame of slot i and marks slot i,
\* and no other slot, advertised
AdvertisesExactly(i) ==
  /\ ret' = [kind |-> "NEW_CONNECTION_ID",
             seq_num |-> alt_quic_connection_ids_local[i].seq_num,
             id |-> alt_quic_connection_ids_local[i].id,
             token |-> alt_quic_connection_ids_local[i].token]
  /\ alt_quic_connection_ids_local'[i] =
       [alt_quic_connection_ids_local[i] EXCEPT !.advertised = TRUE]
  /\ \A j \in LocalSlots \ {i} :
       alt_quic_connection_ids_local'[j] = alt_quic_connection_ids_local[j]
  /\ UNCHANGED <<retired_seq_nums, emitted>>

\* the step sends at most one frame: one advertisement or one retirement
AtMostOneFrame ==
  /\ Cardinality(sent' \ sent) + (Len(emitted') - Len(emitted)) <= 1
  /\ Cardinality({i \in LocalSlots :
                    /\ ~alt_quic_connection_ids_local[i].advertised
                    /\ alt_quic_connection_ids_local'[i] =
                         [alt_quic_connection_ids_local[i] EXCEPT !.advertised = TRUE]})
       + (Len(emitted') - Len(emitted)) <= 1

\* C11: a generate_frame call sends at most one frame; called at an eligible
\* level with a budget the frame fits in while a generated entry is
\* un-advertised, it returns the NEW_CONNECTION_ID frame of the un-advertised
\* slot with the lowest pool index, whatever the sequence numbers, carrying
\* that slot's sequence number, id and token, and marks exactly that slot.
C11_AdvertisesLowestSlot ==
  [][\A level \in Levels, m \in Budgets :
       generate_frame(level, m) =>
         /\ AtMostOneFrame
         /\ (/\ is_level_matched(level)
             /\ unadvertised_generated # {}
             /\ \A i \in LocalSlots :
                  frame_size(NewConnectionIdFrame(alt_quic_connection_ids_local[i])) <= m)
            => \E i \in LocalSlots :
                 /\ ~alt_quic_connection_ids_local[i].advertised
                 /\ \A j \in 1..(i - 1) : alt_quic_connection_ids_local[j].advertised
                 /\ AdvertisesExactly(i)]_vars

\* on an acceptor the regenerated first slot was just advertised while the
\* older entry of the second slot is still un-advertised
C11_Witness ==
  /\ direction = "NET_VCONNECTION_IN"
  /\ nids = 2
  /\ ret = NewConnectionIdFrame(alt_quic_connection_ids_local[1])
  /\ alt_quic_connection_ids_local[1].advertised
  /\ ~alt_quic_connection_ids_local[2].advertised
  /\ alt_quic_connection_ids_local[2].seq_num < alt_quic_connection_ids_local[1].seq_num

\* C12: advertisement has priority over retirement: a step that starts with
\* a generated entry un-advertised sends no RETIRE_CONNECTION_ID frame and
\* pops nothing from the retirement queue, so a retirement frame is only
\* sent by a call that starts with every generated entry advertised.
C12_AdvertisementFirst ==
  [][unadvertised_generated # {} =>
       /\ emitted' = emitted
       /\ IsPrefix(retired_seq_nums, retired_seq_nums')]_vars

\* an advertisement was just sent while a retirement was waiting in the
\* queue, and an earlier call had already sent a retirement
C12_Witness ==
  /\ ret.kind = "NEW_CONNECTION_ID"
  /\ retired_seq_nums # <<>>
  /\ Head(retired_seq_nums) # 0
  /\ emitted # <<>>

\* every generated slot holds a sequence number issued by the counter, and
\* no two generated slots hold the same one
IssuedAndDistinct ==
  \A i \in populated :
    /\ alt_quic_connection_ids_local[i].seq_num >= 1
    /\ alt_quic_connection_ids_local[i].seq_num <= alt_quic_connection_id_seq_num
    /\ \A j \in populated \ {i} :
         alt_quic_connection_ids_local[j].seq_num # alt_quic_connection_ids_local[i].seq_num

\* the slots the step writes a generated entry into
generated_in_step ==
  {i \in LocalSlots :
     \/ i \in populated' \ populated
     \/ alt_quic_connection_ids_local'[i].seq_num # alt_quic_connection_ids_local[i].seq_num}

\* C13: the local sequence counter never decreases, every entry a step
\* generates gets a sequence number above the counter (so above every number
\* issued before, the retired and regenerated ones included) and different
\* from the other entries generated in the step, and once the pool is
\* populated its sequence numbers are pairwise distinct and at least 1.
C13_SequenceNumbersFresh ==
  /\ [](populated = LocalSlots => IssuedAndDistinct)
  /\ [][/\ alt_quic_connection_id_seq_num' >= alt_quic_connection_id_seq_num
        /\ \A i \in generated_in_step :
             /\ alt_quic_connection_ids_local'[i].seq_num > alt_quic_connection_id_seq_num
             /\ alt_quic_connection_ids_local'[i].seq_num <= alt_quic_connection_id_seq_num'
             /\ \A j \in generated_in_step \ {i} :
                  alt_quic_connection_ids_local'[j].seq_num #
                    alt_quic_connection_ids_local'[i].seq_num]_vars

\* a populated pool of two slots after one of them has been regenerated
C13_Witness ==
  /\ nids = 2
  /\ populated = LocalSlots
  /\ alt_quic_connection_id_seq_num > nids
  /\ \E i \in LocalSlots :
       alt_quic_connection_ids_local[i].seq_num = alt_quic_connection_id_seq_num

\* the step sends a NEW_CONNECTION_ID frame (it marks the slot it is built from)
SendsAdvertisement ==
  /\ ret'.kind = "NEW_CONNECTION_ID"
  /\ alt_quic_connection_ids_local' # alt_quic_connection_ids_local

\* a generated entry that stays in its slot keeps advertised = true
AdvertisedNeverReverts ==
  \A i \in populated :
    (/\ alt_quic_connection_ids_local[i].advertised
     /\ alt_quic_connection_ids_local'[i].seq_num = alt_quic_connection_ids_local[i].seq_num)
      => alt_quic_connection_ids_local'[i].advertised

\* the entry _init_alt_connection_ids binds to the preferred address at
\* construction is the first one generated
BoundToPreferredAddress == next_alt_con_info(0)

\* C14: no sequence number is carried by two NEW_CONNECTION_ID frames, the
\* advertised flag of an entry never goes back from true to false, and the
\* entry bound to the preferred address at construction with a local
\* endpoint is never carried by a NEW_CONNECTION_ID frame.
C14_AdvertisedOnce ==
  /\ [][/\ SendsAdvertisement => ret'.seq_num \notin sent
        /\ AdvertisedNeverReverts]_vars
  /\ [](preferred_address # ZERO => BoundToPreferredAddress.seq_num \notin sent)

\* some remote entry has not been selected as a migration target yet
SomeUnused ==
  \E k \in 1..Len(alt_quic_connection_ids_remote) : ~alt_quic_connection_ids_remote[k].used

\* the step is an accepted NEW_CONNECTION_ID frame: one unused entry with a
\* non-empty id is appended
AcceptsAdvertisement ==
  /\ ret' = NoError
  /\ Len(alt_quic_connection_ids_remote') = Len(alt_quic_connection_ids_remote) + 1
  /\ alt_quic_connection_ids_remote'[Len(alt_quic_connection_ids_remote')].id # ZERO
  /\ ~alt_quic_connection_ids_remote'[Len(alt_quic_connection_ids_remote')].used

\* C15: is_ready_to_migrate is true exactly when some remote entry has
\* used = false; the seeded sequence-0 entry counts as used, so with only
\* that entry the coordinator is not ready, and the only step that makes it
\* ready is the acceptance of a NEW_CONNECTION_ID frame with a non-empty id:
\* once every entry has been selected or dropped it stays not ready.
C15_ReadyIffUnused ==
  /\ [](is_ready_to_migrate <=> SomeUnused)
  /\ [](alt_quic_connection_ids_remote = <<SeededInitial>> => ~is_ready_to_migrate)
  /\ [][(~is_ready_to_migrate /\ is_ready_to_migrate') => AcceptsAdvertisement]_vars

\* both of two advertised entries have been selected, the seeded entry is
\* still there, and the coordinator is not ready
C15_Witness ==
  /\ ~is_ready_to_migrate
  /\ ret.kind = "cid"
  /\ ret.id # ZERO
  /\ Len(alt_quic_connection_ids_remote) = 3
  /\ alt_quic_connection_ids_remote[1] = SeededInitial

\* C16: on the initiator migrate_to_alt_cid replaces every pool slot with a
\* freshly generated, un-advertised entry whose sequence number is above
\* every number issued before and whose id was in no slot before, and sets
\* _need_advertise; on the acceptor it leaves the pool, the counter,
\* _need_advertise and the retirement queue unchanged.
C16_MigrateRepopulates ==
  [][migrate_to_alt_cid =>
       IF direction = "NET_VCONNECTION_OUT"
         THEN /\ \A i \in LocalSlots :
                   /\ ~alt_quic_connection_ids_local'[i].advertised
                   /\ alt_quic_connection_ids_local'[i].seq_num > alt_quic_connection_id_seq_num
                   /\ \A j \in LocalSlots :
                        /\ alt_quic_connection_ids_local'[i].id # alt_quic_connection_ids_local[j].id
                        /\ j # i => alt_quic_connection_ids_local'[i].seq_num #
                                      alt_quic_connection_ids_local'[j].seq_num
              /\ need_advertise'
              /\ populated' = LocalSlots
         ELSE UNCHANGED <<alt_quic_connection_ids_local, alt_quic_connection_id_seq_num,
                          need_advertise, retired_seq_nums>>]_vars

\* an initiator with two slots has just migrated to an id advertised by the
\* peer: both slots hold new un-advertised entries
C16_Witness ==
  /\ direction = "NET_VCONNECTION_OUT"
  /\ nids = 2
  /\ ret.kind = "cid"
  /\ ret.id # ZERO
  /\ need_advertise
  /\ populated = LocalSlots
  /\ alt_quic_connection_id_seq_num = nids
  /\ \A i \in LocalSlots : ~alt_quic_connection_ids_local[i].advertised

\* C17: migrate_to(cid) returns true, with the token stored in the slot,
\* exactly when cid is the id of a pool slot, and changes nothing; the id of
\* a generated entry that a RETIRE_CONNECTION_ID frame replaces is in no
\* slot afterwards, so it no longer resolves.
C17_ResolveLocal ==
  /\ [][\A cid \in MigrateCids :
          migrate_to(cid) =>
            /\ ret'.found <=>
                 \E i \in LocalSlots : alt_quic_connection_ids_local[i].id = cid
            /\ ret'.found =>
                 \E i \in LocalSlots :
                   /\ alt_quic_connection_ids_local[i].id = cid
                   /\ ret'.new_reset_token = alt_quic_connection_ids_local[i].token
            /\ UNCHANGED <<config, alt_quic_connection_ids_local,
                           alt_quic_connection_ids_remote, alt_quic_connection_id_seq_num,
                           need_advertise, retired_seq_nums, ctable>>]_vars
  /\ [][\A i \in populated :
          alt_quic_connection_ids_local'[i].seq_num # alt_quic_connection_ids_local[i].seq_num
            => \A j \in LocalSlots :
                 alt_quic_connection_ids_local'[j].id # alt_quic_connection_ids_local[i].id]_vars

\* the id generated first was looked up after its slot had been regenerated
\* and was not found
C17_Witness ==
  /\ ret = MigrateToResult(FALSE, NoToken)
  /\ populated = LocalSlots
  /\ alt_quic_connection_id_seq_num > nids
  /\ \A i \in LocalSlots : alt_quic_connection_ids_local[i].id # RandomCid(1)

\* the step removes one remote entry and pushes its sequence number
PushesRemoved ==
  \E k \in 1..Len(alt_quic_connection_ids_remote) :
    /\ alt_quic_connection_ids_remote' = erase(alt_quic_connection_ids_remote, k)
    /\ retired_seq_nums' =
         Append(retired_seq_nums, alt_quic_connection_ids_remote[k].seq_num)

\* C18: the retirement queue only grows by the sequence number of a remote
\* entry at the step in which drop_cid removes that entry, so every number in
\* the queue is one that was dropped; drop_cid removes an entry carrying the
\* given id, and with no such entry leaves the remote list and the queue
\* unchanged; RETIRE_CONNECTION_ID frames from the peer never add to it.
C18_QueueFromDrops ==
  /\ [](\E n \in 0..Len(dropped) :
          retired_seq_nums = SubSeq(dropped, n + 1, Len(dropped)))
  /\ [][Len(retired_seq_nums') > Len(retired_seq_nums) => PushesRemoved]_vars
  /\ [][\A cid \in PeerCids :
          drop_cid(cid) =>
            IF \A k \in 1..Len(alt_quic_connection_ids_remote) :
                 alt_quic_connection_ids_remote[k].id # cid
              THEN UNCHANGED <<alt_quic_connection_ids_remote, retired_seq_nums>>
              ELSE \E k \in 1..Len(alt_quic_connection_ids_remote) :
                     /\ alt_quic_connection_ids_remote[k].id = cid
                     /\ alt_quic_connection_ids_remote' =
                          erase(alt_quic_connection_ids_remote, k)
                     /\ retired_seq_nums' =
                          Append(retired_seq_nums,
                                 alt_quic_connection_ids_remote[k].seq_num)]_vars
  /\ [][\A s \in 0..(MaxSeq + 1) :
          retire_remote_connection_id(s) => UNCHANGED retired_seq_nums]_vars

\* two entries with different sequence numbers have been dropped and wait in
\* the queue, and a later drop of an absent id changed nothing
C18_Witness ==
  /\ ret = Void
  /\ Len(retired_seq_nums) = 2
  /\ retired_seq_nums[1] # retired_seq_nums[2]
  /\ retired_seq_nums = dropped
  /\ \E cid \in PeerCids :
       \A k \in 1..Len(alt_quic_connection_ids_remote) :
         alt_quic_connection_ids_remote[k].id # cid

\* C19: once every pool slot has been generated, an un-advertised slot
\* implies that _need_advertise is set, so will_generate_frame at an eligible
\* level is true while an un-advertised entry exists.
C19_UnadvertisedImpliesFlag ==
  (populated = LocalSlots
     /\ \E i \in LocalSlots : ~alt_quic_connection_ids_local[i].advertised)
    => (need_advertise /\ will_generate_frame("ONE_RTT"))

\* a populated pool with one entry advertised by a frame and a regenerated
\* entry still waiting, the retirement queue being empty
C19_Witness ==
  /\ populated = LocalSlots
  /\ nids = 2
  /\ sent # {}
  /\ retired_seq_nums = <<>>
  /\ \E i \in LocalSlots : ~alt_quic_connection_ids_local[i].advertised
  /\ \E i \in LocalSlots : alt_quic_connection_ids_local[i].advertised
  /\ alt_quic_connection_id_seq_num > nids

\* C20: when will_generate_frame(level) is false, a generate_frame call at
\* that level returns no frame whatever the budget and leaves the advertised
\* flags, _need_advertise, the retirement queue and the remote list
\* unchanged.
C20_NoWorkNoFrame ==
  [][\A level \in Levels, m \in Budgets :
       (~will_generate_frame(level) /\ generate_frame(level, m)) =>
         /\ ret' = NullFrame
         /\ UNCHANGED <<alt_quic_connection_ids_local, need_advertise,
                        retired_seq_nums, alt_quic_connection_ids_remote,
                        emitted, sent>>]_vars

\* a call returned no frame at a moment when advertisements and retirements
\* had been sent, the flag was clear and the queue empty
C20_Witness ==
  /\ ret = NullFrame
  /\ ~will_generate_frame("ONE_RTT")
  /\ sent # {}
  /\ emitted # <<>>
====
